---- MODULE Spec2Model ----
(***************************************************************************)
(* TTL reaper: the timer based Reconciler (pkg/reconciler/ttlreaper, the   *)
(* knative controller) and the polling TTLReaperReconciler                 *)
(* (pkg/controller/ttlreaper_controller.go), both working against one      *)
(* cluster API.                                                            *)
(*                                                                         *)
(* Time is a count of seconds.  A timestamp string is modelled by the      *)
(* instant it parses to, tagged with whether time.Parse accepts it.        *)
(***************************************************************************)
EXTENDS Integers, Sequences, FiniteSets, TLC

\* ------------------------------------------------------------------ bounds
MaxTime == 2
MaxTimers == 3
MaxPasses == 3
MaxChanges == 1
\* creations and deletions of policies by other clients
MaxEdits == 2

Time == 0..MaxTime

\* ------------------------------------------------ unstructured documents
\* time.Time{}: the zero instant, before every instant of the model.
ZeroTime == 0 - 1000

\* A field that NestedString / NestedInt64 does not find.
PhaseAbsent == "<absent>"
NoLTT == 0 - 1

AbsentField == [tag |-> "absent", val |-> 0]
IntField(n) == [tag |-> "int64", val |-> n]
\* a string holding the decimal digits of n
NumStrField(n) == [tag |-> "numstr", val |-> n]
\* a string time.Parse(time.RFC3339, .) accepts, denoting instant t
TimeStrField(t) == [tag |-> "rfc3339", val |-> t]
\* a string that is neither a number nor a timestamp
BadStrField == [tag |-> "badstr", val |-> 0]

IsString(f) == f.tag \in {"numstr", "rfc3339", "badstr"}

\* unstructured.NestedInt64: (value, found, err); err on a value of another type.
NestedInt64(f) ==
  IF f.tag = "absent" THEN [val |-> 0, found |-> FALSE, err |-> FALSE]
  ELSE IF f.tag = "int64" THEN [val |-> f.val, found |-> TRUE, err |-> FALSE]
  ELSE [val |-> 0, found |-> FALSE, err |-> TRUE]

\* unstructured.NestedString: found only for a value that is a string.
NestedStringFound(f) == IsString(f)

\* time.Parse(time.RFC3339, s) succeeds
ParsesRFC3339(f) == f.tag = "rfc3339"

\* ------------------------------------------------------------ classifier
MatchingCondition(c) ==
  /\ c.type \in {"Succeeded", "Completed"}
  /\ c.status = "True"

\* isResourceFinished as it would be if every status.phase counted as finished
anyPhaseFinished(o) ==
  IF o.phase # PhaseAbsent
  THEN TRUE
  ELSE IF \E j \in 1..Len(o.conds) : MatchingCondition(o.conds[j])
       THEN TRUE
       ELSE NestedStringFound(o.ct)

\* Reconciler.isResourceFinished: pattern 1 returns as soon as status.phase is a
\* string, whatever its value; patterns 2 and 3 are reached only without a phase.
isResourceFinished(o) ==
  IF o.phase # PhaseAbsent
  THEN o.phase \in {"Succeeded", "Failed", "Completed"}
  ELSE IF \E j \in 1..Len(o.conds) : MatchingCondition(o.conds[j])
       THEN TRUE
       ELSE NestedStringFound(o.ct)

\* scheduleResourceDeletion, "Get completion time": status.completionTime when it
\* parses, else the creation timestamp.
finishTime(o) ==
  IF NestedStringFound(o.ct) /\ ParsesRFC3339(o.ct) THEN o.ct.val ELSE o.created

\* expirationTime := finishTime.Add(time.Duration(ttlSeconds) * time.Second)
expirationTime(o, ttlSeconds) == finishTime(o) + ttlSeconds

\* the polling controller's isResourceFinished: a condition of type Succeeded with
\* status True, or a completionTime string
Config_isResourceFinished(o) ==
  \/ \E j \in 1..Len(o.conds) :
        o.conds[j].type = "Succeeded" /\ o.conds[j].status = "True"
  \/ NestedStringFound(o.ct)

RECURSIVE FirstSucceededLTT(_, _)
FirstSucceededLTT(conds, j) ==
  IF j > Len(conds) THEN ZeroTime
  ELSE IF conds[j].type = "Succeeded" /\ conds[j].ltt # NoLTT THEN conds[j].ltt
  ELSE FirstSucceededLTT(conds, j + 1)

\* getResourceCompletionTime: completionTime when it parses, else the
\* lastTransitionTime of the first condition of type Succeeded that has one, else
\* the zero time.
getResourceCompletionTime(o) ==
  IF NestedStringFound(o.ct) /\ ParsesRFC3339(o.ct) THEN o.ct.val
  ELSE FirstSucceededLTT(o.conds, 1)

\* shouldDeleteResource
shouldDeleteResource(o, ttlSeconds, t) ==
  /\ Config_isResourceFinished(o)
  /\ getResourceCompletionTime(o) # ZeroTime
  /\ t > getResourceCompletionTime(o) + ttlSeconds

\* convertToInt64: integers as they are, strings through strconv.ParseInt
convertToInt64(f) ==
  IF f.tag = "int64" THEN [val |-> f.val, err |-> FALSE]
  ELSE IF f.tag = "numstr" THEN [val |-> f.val, err |-> FALSE]
  ELSE [val |-> 0, err |-> TRUE]

\* ------------------------------------------------------------- the cluster
\* controller.DefaultThreadsPerController workers take reconcile keys off the queue
Workers == {1, 2}

\* the namespaces of the cluster, in the order Namespaces().List returns them
Namespaces == <<"a", "b">>

\* the target instances that may exist: locator, kind, namespace and name
InstTable ==
  [i1 |-> [gvr |-> "batch/v1/jobs", kind |-> "Job", apiVersion |-> "batch/v1",
           ns |-> "a", name |-> "x"],
   i2 |-> [gvr |-> "batch/v1/jobs", kind |-> "Job", apiVersion |-> "batch/v1",
           ns |-> "b", name |-> "x"],
   i3 |-> [gvr |-> "example.com/v1/jobs", kind |-> "Job", apiVersion |-> "example.com/v1",
           ns |-> "a", name |-> "x"],
   i4 |-> [gvr |-> "batch/v1/jobs", kind |-> "Job", apiVersion |-> "batch/v1",
           ns |-> "a", name |-> "y"]]
Insts == DOMAIN InstTable
\* the order a List call returns them in
InstOrder == <<"i1", "i2", "i3", "i4">>
NoInst == ""

\* the TTLReaper objects of the lister
PolicyTable ==
  [p1 |-> [TargetKind |-> "Job", TargetAPIVersion |-> "batch/v1", TargetNamespace |-> "a"],
   p2 |-> [TargetKind |-> "Job", TargetAPIVersion |-> "batch/v1", TargetNamespace |-> ""],
   p3 |-> [TargetKind |-> "", TargetAPIVersion |-> "batch/v1", TargetNamespace |-> "a"],
   p4 |-> [TargetKind |-> "Job", TargetAPIVersion |-> "", TargetNamespace |-> "a"],
   p5 |-> [TargetKind |-> "Job", TargetAPIVersion |-> "a/b/c", TargetNamespace |-> "a"],
   p6 |-> [TargetKind |-> "job", TargetAPIVersion |-> "batch/v1", TargetNamespace |-> "b"],
   p7 |-> [TargetKind |-> "Job", TargetAPIVersion |-> "example.com/v1",
           TargetNamespace |-> "a"]]
Policies == DOMAIN PolicyTable
\* the policies the lister holds when the timer based reconciler is examined alone
ListedPolicies == {"p1", "p2"}

\* strings are sequences of characters: the character at position i, and the rest
CharAt(s, i) == SubSeq(s, i, i)
From(s, i) == SubSeq(s, i, Len(s))

\* split(s, "/") and strings.Split(s, "/"): the parts between the slashes
RECURSIVE splitFrom(_, _, _)
splitFrom(s, start, i) ==
  IF i > Len(s) THEN <<SubSeq(s, start, Len(s))>>
  ELSE IF CharAt(s, i) = "/"
       THEN <<SubSeq(s, start, i - 1)>> \o splitFrom(s, i + 1, i + 1)
       ELSE splitFrom(s, start, i + 1)
split(s) == splitFrom(s, 1, 1)

\* schema.ParseGroupVersion: "" and "/" are the empty group and version, "v" is
\* version v of the core group, "g/v" is group g and version v, anything with more
\* slashes is an error
ParseGroupVersion(gv) ==
  LET parts == split(gv)
  IN IF gv = "" \/ gv = "/" THEN [Group |-> "", Version |-> "", err |-> FALSE]
     ELSE IF Len(parts) = 1 THEN [Group |-> "", Version |-> gv, err |-> FALSE]
     ELSE IF Len(parts) = 2 THEN [Group |-> parts[1], Version |-> parts[2], err |-> FALSE]
     ELSE [Group |-> "", Version |-> "", err |-> TRUE]
ParseGroupVersionFails(apiVersion) == ParseGroupVersion(apiVersion).err

\* strings.ToLower
UpperCase == "ABCDEFGHIJKLMNOPQRSTUVWXYZ"
LowerCase == "abcdefghijklmnopqrstuvwxyz"
LowerChar(c) ==
  IF \E i \in 1..Len(UpperCase) : CharAt(UpperCase, i) = c
  THEN CharAt(LowerCase, CHOOSE i \in 1..Len(UpperCase) : CharAt(UpperCase, i) = c)
  ELSE c
RECURSIVE ToLower(_)
ToLower(s) == IF s = "" THEN "" ELSE LowerChar(CharAt(s, 1)) \o ToLower(From(s, 2))

\* strings.HasSuffix and strings.TrimSuffix
HasSuffix(s, suffix) ==
  Len(s) >= Len(suffix) /\ SubSeq(s, Len(s) - Len(suffix) + 1, Len(s)) = suffix
TrimSuffix(s, suffix) ==
  IF HasSuffix(s, suffix) THEN SubSeq(s, 1, Len(s) - Len(suffix)) ELSE s

\* schema.GroupVersionResource
GVR(group, version, resource) == [Group |-> group, Version |-> version, Resource |-> resource]
NoGVR == GVR("", "", "")

\* parseTargetGVR: (locator, err)
parseTargetGVR(targetKind, targetAPIVersion) ==
  LET parts == split(targetAPIVersion)
  IN IF Len(parts) # 2
     THEN [gvr |-> NoGVR, err |-> TRUE]
     ELSE [gvr |-> GVR(parts[1], parts[2], ToLower(targetKind) \o "s"), err |-> FALSE]

NoTarget == [kind |-> "", apiVersion |-> ""]
NoLocators ==
  [done |-> FALSE, watch |-> [gvr |-> NoGVR, err |-> FALSE],
   list |-> [gvr |-> NoGVR, err |-> FALSE], poll |-> NoGVR]

\* the locators parseTargetGVR can return for the policies of PolicyTable
GVRs ==
  {parseTargetGVR(PolicyTable[p].TargetKind, PolicyTable[p].TargetAPIVersion).gvr :
     p \in {q \in Policies :
              ~parseTargetGVR(PolicyTable[q].TargetKind,
                              PolicyTable[q].TargetAPIVersion).err}}

\* gvr.String() as InstTable writes locators
GVRName(group, version, resource) == group \o "/" \o version \o "/" \o resource

\* getResourceName: lower case, plural
getResourceName(kind) ==
  LET lower == ToLower(kind)
  IN IF HasSuffix(lower, "y") THEN TrimSuffix(lower, "y") \o "ies"
     ELSE IF HasSuffix(lower, "s") \/ HasSuffix(lower, "x") \/ HasSuffix(lower, "z")
     THEN lower \o "es"
     ELSE lower \o "s"

\* reconcileTTLReaper, "Create the GroupVersionResource"
targetGVR(spec) ==
  GVRName(ParseGroupVersion(spec.TargetAPIVersion).Group,
          ParseGroupVersion(spec.TargetAPIVersion).Version,
          getResourceName(spec.TargetKind))

\* resourceKey := fmt.Sprintf("%s/%s/%s", namespace, item.GetKind(), resourceName)
resourceKey(i) == <<InstTable[i].ns, InstTable[i].kind, InstTable[i].name>>
Keys == {resourceKey(i) : i \in Insts}

\* alt is the field at AltTTLPath; ttl is the field at DefaultTTLPath
Obj(ttl, phase, conds, ct, created) ==
  [ttl |-> ttl, phase |-> phase, conds |-> conds, ct |-> ct, created |-> created,
   alt |-> AbsentField]

DefaultTTLPath == "spec.ttlSecondsAfterFinished"
\* another path a policy may name
AltTTLPath == "spec.retentionPolicy.ttlSeconds"
\* unstructured.NestedFieldNoCopy(obj.Object, parts...): the field of obj at path
FieldAt(obj, path) ==
  IF path = DefaultTTLPath THEN obj.ttl
  ELSE IF path = AltTTLPath THEN obj.alt
  ELSE AbsentField

\* no such instance
NoObj == Obj(AbsentField, "<gone>", <<>>, AbsentField, 0)

\* what an instance can look like while the reconcilers run: finished at instant 0
\* with a TTL of -1, 1 or 2 seconds or with none, or still running
FinishedObj(ttl) == Obj(ttl, PhaseAbsent, <<>>, TimeStrField(0), 0)
RunningObj == Obj(IntField(1), "Running", <<>>, AbsentField, 0)
\* a status.completionTime that time.Parse rejects, and nothing else in status
UnparseableObj(ttl) == Obj(ttl, PhaseAbsent, <<>>, BadStrField, 0)
\* no status.phase, no status.conditions, no status.completionTime
NoSignalObj(ttl) == Obj(ttl, PhaseAbsent, <<>>, AbsentField, 0)
ClusterShapes ==
  {FinishedObj(f) : f \in {AbsentField, IntField(0 - 1), IntField(1), IntField(2)}}
    \cup {RunningObj}
\* the instances other clients create, update and delete
Touched == {"i1"}

NoTimer == 0
TimerIds == 1..MaxTimers
FreeMutex == [w |-> 0, t |-> 0]

VARIABLES
  now,        \* time.Now()
  cluster,    \* instance -> its object, or NoObj
  policies,   \* policy -> whether the lister has it
  timers,     \* Reconciler.timers: resource key -> timer id, or NoTimer
  tm,         \* every time.AfterFunc timer created so far
  mutex,      \* Reconciler.timersMutex: who holds it
  wk,         \* the reconcile call each worker is in
  passes,     \* reconcile calls started
  changes,    \* creations, updates and deletions of instances by other clients
  log,        \* what the last step logged or returned
  cfgs,       \* TTLReaperConfig objects: whether each exists, its finalizer, its deletion mark
  pw,         \* the TTLReaperReconciler call in progress
  probe,      \* an object handed to the classifier functions
  verdict,    \* what the classifier functions return for probe
  target,     \* a targetKind and a targetAPIVersion handed to the locator functions
  locators,   \* the locators the registry and the two reconcilers resolve for target
  watchedGVRs,       \* watchTargetResources: the locators it has started to watch
  dynamicInformers,  \* locator -> how many informers startWatchingGVR has started
  events,     \* instances with an add or update notification not yet handled
  workQueue,  \* the policies waiting in the controller's work queue
  edits       \* creations and deletions of policies by other clients

vars ==
  <<now, cluster, policies, timers, tm, mutex, wk, passes, changes, log,
    cfgs, pw, probe, verdict, target, locators, watchedGVRs, dynamicInformers, events, workQueue, edits>>
timerVars == <<policies, timers, tm, mutex, wk>>
pollVars == <<cfgs, pw>>
probeVars == <<probe, verdict, target, locators>>
watchVars == <<watchedGVRs, dynamicInformers, events, workQueue, edits>>

UnusedTimer == [st |-> "unused", inst |-> NoInst, key |-> <<>>, deadline |-> 0]
IdleWorker ==
  [pc |-> "idle", pol |-> "", nsq |-> <<>>, items |-> <<>>, cur |-> NoInst,
   ttl |-> 0, delay |-> 0]
\* a log line or a return value, with the answer of the API when it reports one
\* every line carries the key its logger was made with (the reconcile key), if any
\* after: the RequeueAfter of a returned ctrl.Result in seconds, 0 when there is none
LogFor(key, msg, resp) == [msg |-> msg, resp |-> resp, key |-> key, after |-> 0]
Requeue(line, seconds) == [line EXCEPT !.after = seconds]
LogLine(msg, resp) == LogFor("", msg, resp)
NoLog == LogLine("none", "")


\* the TTLReaperConfig objects: spec, and the namespace of the object
\* CheckInterval is a nil pointer
NilInterval == 0 - 1
DefaultInterval == 300
ConfigTable ==
  [c1 |-> [TargetKind |-> "Job", TargetAPIVersion |-> "batch/v1",
           TargetNamespace |-> "a", Namespace |-> "ttl-reaper-system",
           TTLFieldPath |-> "", CheckInterval |-> NilInterval],
   c2 |-> [TargetKind |-> "job", TargetAPIVersion |-> "batch/v1",
           TargetNamespace |-> "", Namespace |-> "a", TTLFieldPath |-> "",
           CheckInterval |-> 600],
   c3 |-> [TargetKind |-> "job", TargetAPIVersion |-> "batch/v1/x",
           TargetNamespace |-> "a", Namespace |-> "a", TTLFieldPath |-> "",
           CheckInterval |-> NilInterval]]
Configs == DOMAIN ConfigTable
\* metadata of a TTLReaperConfig: TTLReaperFinalizer present, DeletionTimestamp set
Config(exists, finalizer, deleting) ==
  [exists |-> exists, finalizer |-> finalizer, deleting |-> deleting]
NoConfig == Config(FALSE, FALSE, FALSE)
IdlePoll ==
  [pc |-> "idle", cfg |-> "", items |-> <<>>, cur |-> NoInst, passNow |-> 0,
   processedCount |-> 0, deletedCount |-> 0]
NoVerdict ==
  [done |-> FALSE, finished |-> FALSE, finishTime |-> 0,
   cfgFinished |-> FALSE, cfgCompletion |-> 0]

\* the cluster the reconcilers start against: any shape of the instances
ClusterInit ==
  /\ now = 0
  /\ cluster \in {c \in [Insts -> ClusterShapes \cup {NoObj}] :
                    \A i \in Insts \ Touched : c[i] = NoObj}
  /\ passes = 0
  /\ changes = 0
  /\ log = NoLog

\* NewController: an empty timer registry
TimerInit ==
  /\ policies = [p \in Policies |-> p \in ListedPolicies]
  /\ timers = [k \in Keys |-> NoTimer]
  /\ tm = [t \in TimerIds |-> UnusedTimer]
  /\ mutex = FreeMutex
  /\ wk = [w \in Workers |-> IdleWorker]

PollIdle ==
  /\ cfgs = [c \in Configs |-> NoConfig]
  /\ pw = IdlePoll

ProbeIdle ==
  /\ probe = NoObj
  /\ verdict = NoVerdict
  /\ target = NoTarget
  /\ locators = NoLocators

\* watchTargetResources before its first tick: nothing watched, nothing queued
WatchIdle ==
  /\ watchedGVRs = {}
  /\ dynamicInformers = [g \in GVRs |-> 0]
  /\ events = {}
  /\ workQueue = {}
  /\ edits = 0

Init == ClusterInit /\ TimerInit /\ PollIdle /\ ProbeIdle /\ WatchIdle

\* ------------------------------------------------------------ environment
Tick ==
  /\ now < MaxTime
  /\ now' = now + 1
  /\ log' = NoLog
  /\ UNCHANGED <<cluster, policies, timers, tm, mutex, wk, passes, changes, pollVars, probeVars, watchVars>>

\* another client creates or updates an instance
SetInstance(i, o) ==
  /\ cluster[i] # o
  /\ changes < MaxChanges
  /\ changes' = changes + 1
  /\ cluster' = [cluster EXCEPT ![i] = o]
  /\ log' = NoLog
  /\ UNCHANGED <<now, policies, timers, tm, mutex, wk, passes, pollVars, probeVars, watchVars>>

\* another client deletes an instance
RemoveInstance(i) ==
  /\ cluster[i] # NoObj
  /\ changes < MaxChanges
  /\ changes' = changes + 1
  /\ cluster' = [cluster EXCEPT ![i] = NoObj]
  /\ log' = NoLog
  /\ UNCHANGED <<now, policies, timers, tm, mutex, wk, passes, pollVars, probeVars, watchVars>>

\* dynamicClient.Resource(gvr).Namespace(ns).Delete(name): the answers of the API
DeleteResponses == {"ok", "notfound", "denied", "transient"}
DeleteAnswers(i, resp) ==
  \/ resp = "ok" /\ cluster[i] # NoObj
  \/ resp = "notfound" /\ cluster[i] = NoObj
  \/ resp \in {"denied", "transient"}
ClusterAfterDelete(i, resp) ==
  IF resp = "ok" THEN [cluster EXCEPT ![i] = NoObj] ELSE cluster

\* ------------------------------------------------- Reconciler (timer based)
\* scheduleResourceDeletion logs one of two outcomes: err == nil, or err != nil
deleteLog(resp) == IF resp = "ok" THEN "delete-succeeded" ELSE "delete-failed"

\* dynamicClient.Resource(gvr).Namespace(namespace).List: the current instances
ListItems(gvr, ns) ==
  LET here(i) == /\ cluster[i] # NoObj
                 /\ InstTable[i].gvr = gvr
                 /\ InstTable[i].ns = ns
      found == SelectSeq(InstOrder, here)
  IN [j \in 1..Len(found) |-> [inst |-> found[j], obj |-> cluster[found[j]]]]

UsedTimers == {t \in TimerIds : tm[t].st # "unused"}
\* calls that have computed a positive delay and have not yet called time.AfterFunc
TimersToCome == {w \in Workers : wk[w].pc \in {"lock", "locked"} /\ wk[w].delay > 0}
NewTimerId == CHOOSE t \in TimerIds : t = Cardinality(UsedTimers) + 1

\* Reconcile and reconcileTTLReaper up to the namespaces to process.  The work queue
\* hands a key to one worker at a time.  nsListFails: Namespaces().List returns an
\* error (it is called for a cluster-wide policy only).
\* existingTimer.Stop(): an armed timer never fires; a timer whose function has
\* started is not stopped
Stop(rec) ==
  IF rec.st = "armed" THEN [rec EXCEPT !.st = "stopped", !.deadline = 0] ELSE rec

\* Reconcile as it would be if a failed List of the namespaces were reported and
\* the pass went on with the namespaces it knows
ReconcileGoesOn(w, p, nsListFails) ==
  /\ wk[w].pc = "idle"
  /\ passes < MaxPasses
  /\ \A v \in Workers : wk[v].pol # p
  /\ passes' = passes + 1
  /\ LET spec == PolicyTable[p] IN
       IF ~policies[p]
       THEN /\ ~nsListFails
            /\ log' = LogFor(p, "reconcile-ok", "")
            /\ wk' = wk
       ELSE IF \/ spec.TargetKind = ""
               \/ spec.TargetAPIVersion = ""
               \/ ParseGroupVersionFails(spec.TargetAPIVersion)
       THEN /\ ~nsListFails
            /\ log' = LogFor(p, "reconcile-error", "")
            /\ wk' = wk
       ELSE IF spec.TargetNamespace # ""
       THEN /\ ~nsListFails
            /\ log' = NoLog
            /\ wk' = [wk EXCEPT ![w] = [IdleWorker EXCEPT
                        !.pc = "namespaces", !.pol = p, !.nsq = <<spec.TargetNamespace>>]]
       ELSE /\ log' = IF nsListFails THEN LogFor(p, "reconcile-error", "") ELSE NoLog
            /\ wk' = [wk EXCEPT ![w] = [IdleWorker EXCEPT
                        !.pc = "namespaces", !.pol = p, !.nsq = Namespaces]]
  /\ UNCHANGED <<now, cluster, policies, timers, tm, mutex, changes, pollVars, probeVars, watchVars>>

\* Reconcile as it would be if a policy that no longer exists had its timers
\* stopped and removed
ReconcileCancelsTimers(w, p, nsListFails) ==
  /\ wk[w].pc = "idle"
  /\ passes < MaxPasses
  /\ \A v \in Workers : wk[v].pol # p
  /\ passes' = passes + 1
  /\ LET spec == PolicyTable[p] IN
       IF ~policies[p]
       THEN /\ ~nsListFails
            /\ log' = LogFor(p, "reconcile-ok", "")
            /\ wk' = wk
            /\ tm' = [t \in TimerIds |-> Stop(tm[t])]
            /\ timers' = [k \in Keys |-> NoTimer]
       ELSE /\ UNCHANGED <<timers, tm>>
            /\ IF \/ spec.TargetKind = ""
                  \/ spec.TargetAPIVersion = ""
                  \/ ParseGroupVersionFails(spec.TargetAPIVersion)
               THEN /\ ~nsListFails
                    /\ log' = LogFor(p, "reconcile-error", "")
                    /\ wk' = wk
               ELSE IF spec.TargetNamespace # ""
               THEN /\ ~nsListFails
                    /\ log' = NoLog
                    /\ wk' = [wk EXCEPT ![w] = [IdleWorker EXCEPT
                                !.pc = "namespaces", !.pol = p,
                                !.nsq = <<spec.TargetNamespace>>]]
               ELSE IF nsListFails
               THEN /\ log' = LogFor(p, "reconcile-error", "")
                    /\ wk' = wk
               ELSE /\ log' = NoLog
                    /\ wk' = [wk EXCEPT ![w] = [IdleWorker EXCEPT
                                !.pc = "namespaces", !.pol = p, !.nsq = Namespaces]]
  /\ UNCHANGED <<now, cluster, policies, mutex, changes, pollVars, probeVars, watchVars>>

Reconcile(w, p, nsListFails) ==
  /\ wk[w].pc = "idle"
  /\ passes < MaxPasses
  /\ \A v \in Workers : wk[v].pol # p
  /\ passes' = passes + 1
  /\ LET spec == PolicyTable[p] IN
       IF ~policies[p]
       THEN /\ ~nsListFails
            /\ log' = LogFor(p, "reconcile-ok", "")
            /\ wk' = wk
       ELSE IF \/ spec.TargetKind = ""
               \/ spec.TargetAPIVersion = ""
               \/ ParseGroupVersionFails(spec.TargetAPIVersion)
       THEN /\ ~nsListFails
            /\ log' = LogFor(p, "reconcile-error", "")
            /\ wk' = wk
       ELSE IF spec.TargetNamespace # ""
       THEN /\ ~nsListFails
            /\ log' = NoLog
            /\ wk' = [wk EXCEPT ![w] = [IdleWorker EXCEPT
                        !.pc = "namespaces", !.pol = p, !.nsq = <<spec.TargetNamespace>>]]
       ELSE IF nsListFails
       THEN /\ log' = LogFor(p, "reconcile-error", "")
            /\ wk' = wk
       ELSE /\ log' = NoLog
            /\ wk' = [wk EXCEPT ![w] = [IdleWorker EXCEPT
                        !.pc = "namespaces", !.pol = p, !.nsq = Namespaces]]
  /\ UNCHANGED <<now, cluster, policies, timers, tm, mutex, changes, pollVars, probeVars, watchVars>>

\* processNamespace as it would be if a failed List ended the pass (return err
\* in place of continue)
processNamespaceAborts(w, answer) ==
  /\ wk[w].pc = "namespaces"
  /\ wk[w].nsq # <<>>
  /\ LET ns == Head(wk[w].nsq)
         gvr == targetGVR(PolicyTable[wk[w].pol])
     IN IF answer = "ok"
        THEN /\ wk' = [wk EXCEPT ![w].pc = "items", ![w].items = ListItems(gvr, ns)]
             /\ log' = NoLog
        ELSE IF answer = "error"
        THEN /\ wk' = [wk EXCEPT ![w] = IdleWorker]
             /\ log' = LogFor(wk[w].pol, "reconcile-error", "")
        ELSE /\ wk' = [wk EXCEPT ![w].nsq = Tail(wk[w].nsq)]
             /\ log' = NoLog
  /\ UNCHANGED <<now, cluster, policies, timers, tm, mutex, passes, changes, pollVars, probeVars, watchVars>>

\* processNamespace, the List call.  answer: "ok", "notfound" (the resource type is
\* not registered: 0, nil) or "error" (logged, continue with the next namespace)
processNamespace(w, answer) ==
  /\ wk[w].pc = "namespaces"
  /\ wk[w].nsq # <<>>
  /\ LET ns == Head(wk[w].nsq)
         gvr == targetGVR(PolicyTable[wk[w].pol])
     IN IF answer = "ok"
        THEN /\ wk' = [wk EXCEPT ![w].pc = "items", ![w].items = ListItems(gvr, ns)]
             /\ log' = NoLog
        ELSE /\ wk' = [wk EXCEPT ![w].nsq = Tail(wk[w].nsq)]
             /\ log' = IF answer = "error"
                        THEN LogFor(wk[w].pol, "namespace-error", "") ELSE NoLog
  /\ UNCHANGED <<now, cluster, policies, timers, tm, mutex, passes, changes, pollVars, probeVars, watchVars>>

\* reconcileTTLReaper: every namespace is done, return nil
EndPass(w) ==
  /\ wk[w].pc = "namespaces"
  /\ wk[w].nsq = <<>>
  /\ wk' = [wk EXCEPT ![w] = IdleWorker]
  /\ log' = LogFor(wk[w].pol, "reconcile-ok", "")
  /\ UNCHANGED <<now, cluster, policies, timers, tm, mutex, passes, changes, pollVars, probeVars, watchVars>>

\* processNamespace, one turn of the loop over resourceList.Items, and
\* scheduleResourceDeletion up to delay := time.Until(expirationTime)
NextItem(w) ==
  /\ wk[w].pc = "items"
  /\ IF wk[w].items = <<>>
     THEN wk' = [wk EXCEPT ![w].pc = "namespaces", ![w].nsq = Tail(wk[w].nsq)]
     ELSE LET item == Head(wk[w].items)
              ttl == NestedInt64(item.obj.ttl)
          IN IF ttl.err \/ ~ttl.found \/ ~isResourceFinished(item.obj)
             THEN wk' = [wk EXCEPT ![w].items = Tail(wk[w].items)]
             ELSE /\ expirationTime(item.obj, ttl.val) - now > 0
                       => Cardinality(UsedTimers) + Cardinality(TimersToCome) < MaxTimers
                  /\ wk' = [wk EXCEPT ![w].items = Tail(wk[w].items),
                                      ![w].cur = item.inst,
                                      ![w].ttl = ttl.val,
                                      ![w].delay = expirationTime(item.obj, ttl.val) - now,
                                      ![w].pc = "lock"]
  /\ log' = NoLog
  /\ UNCHANGED <<now, cluster, policies, timers, tm, mutex, passes, changes, pollVars, probeVars, watchVars>>

\* scheduleResourceDeletion as it would be if it did not wait for timersMutex
scheduleWithoutLock(w) ==
  /\ wk[w].pc = "lock"
  /\ LET k == resourceKey(wk[w].cur)
         existing == timers[k]
     IN /\ tm' = IF existing # NoTimer
                 THEN [tm EXCEPT ![existing] = Stop(tm[existing])] ELSE tm
        /\ timers' = [timers EXCEPT ![k] = NoTimer]
  /\ mutex' = [w |-> w, t |-> 0]
  /\ wk' = [wk EXCEPT ![w].pc = "locked"]
  /\ log' = NoLog
  /\ UNCHANGED <<now, cluster, policies, passes, changes, pollVars, probeVars, watchVars>>

\* scheduleResourceDeletion: timersMutex.Lock() and "Cancel existing timer if any"
scheduleLock(w) ==
  /\ wk[w].pc = "lock"
  /\ mutex = FreeMutex
  /\ LET k == resourceKey(wk[w].cur)
         existing == timers[k]
     IN /\ tm' = IF existing # NoTimer
                 THEN [tm EXCEPT ![existing] = Stop(tm[existing])] ELSE tm
        /\ timers' = [timers EXCEPT ![k] = NoTimer]
  /\ mutex' = [w |-> w, t |-> 0]
  /\ wk' = [wk EXCEPT ![w].pc = "locked"]
  /\ log' = NoLog
  /\ UNCHANGED <<now, cluster, policies, passes, changes, pollVars, probeVars, watchVars>>

\* scheduleResourceDeletion as it would be if the expired branch kept the lock
\* during its Delete
scheduleBranchKeepsLock(w) ==
  /\ wk[w].pc = "locked"
  /\ mutex = [w |-> w, t |-> 0]
  /\ IF wk[w].delay <= 0
     THEN /\ wk' = [wk EXCEPT ![w].pc = "delete"]
          /\ log' = NoLog
          /\ UNCHANGED <<timers, tm, mutex>>
     ELSE LET k == resourceKey(wk[w].cur)
              t == NewTimerId
          IN /\ mutex' = FreeMutex
             /\ tm' = [tm EXCEPT ![t] = [st |-> "armed", inst |-> wk[w].cur,
                                         key |-> k, deadline |-> now + wk[w].delay]]
             /\ timers' = [timers EXCEPT ![k] = t]
             /\ wk' = [wk EXCEPT ![w].pc = "items", ![w].cur = NoInst,
                                 ![w].ttl = 0, ![w].delay = 0]
             /\ log' = LogLine("scheduled", "")
  /\ UNCHANGED <<now, cluster, policies, passes, changes, pollVars, probeVars, watchVars>>

\* scheduleResourceDeletion with the lock held: already expired, unlock and go on to
\* delete; else time.AfterFunc(delay, ...), register the timer and unlock
scheduleBranch(w) ==
  /\ wk[w].pc = "locked"
  /\ mutex = [w |-> w, t |-> 0]
  /\ mutex' = FreeMutex
  /\ IF wk[w].delay <= 0
     THEN /\ wk' = [wk EXCEPT ![w].pc = "delete"]
          /\ log' = NoLog
          /\ UNCHANGED <<timers, tm>>
     ELSE LET k == resourceKey(wk[w].cur)
              t == NewTimerId
          IN /\ tm' = [tm EXCEPT ![t] = [st |-> "armed", inst |-> wk[w].cur,
                                         key |-> k, deadline |-> now + wk[w].delay]]
             /\ timers' = [timers EXCEPT ![k] = t]
             /\ wk' = [wk EXCEPT ![w].pc = "items", ![w].cur = NoInst,
                                 ![w].ttl = 0, ![w].delay = 0]
             /\ log' = LogLine("scheduled", "")
  /\ UNCHANGED <<now, cluster, policies, passes, changes, pollVars, probeVars, watchVars>>

\* scheduleResourceDeletion as it would be if a failed Delete ended the pass
syncDeleteAborts(w, resp) ==
  /\ wk[w].pc = "delete"
  /\ DeleteAnswers(wk[w].cur, resp)
  /\ cluster' = ClusterAfterDelete(wk[w].cur, resp)
  /\ IF resp = "ok"
     THEN /\ wk' = [wk EXCEPT ![w].pc = "items", ![w].cur = NoInst, ![w].ttl = 0,
                              ![w].delay = 0]
          /\ log' = LogLine(deleteLog(resp), resp)
     ELSE /\ wk' = [wk EXCEPT ![w] = IdleWorker]
          /\ log' = LogFor(wk[w].pol, "reconcile-error", resp)
  /\ UNCHANGED <<now, policies, timers, tm, mutex, passes, changes, pollVars, probeVars, watchVars>>

\* scheduleResourceDeletion, "If already expired, delete immediately"
syncDelete(w, resp) ==
  /\ wk[w].pc = "delete"
  /\ DeleteAnswers(wk[w].cur, resp)
  /\ cluster' = ClusterAfterDelete(wk[w].cur, resp)
  /\ wk' = [wk EXCEPT ![w].pc = "items", ![w].cur = NoInst, ![w].ttl = 0,
                      ![w].delay = 0]
  /\ log' = LogLine(deleteLog(resp), resp)
  /\ UNCHANGED <<now, policies, timers, tm, mutex, passes, changes, pollVars, probeVars, watchVars>>

\* the runtime starts the function of a timer whose delay has elapsed
timerFire(t) ==
  /\ tm[t].st = "armed"
  /\ now >= tm[t].deadline
  /\ tm' = [tm EXCEPT ![t].st = "running", ![t].deadline = 0]
  /\ log' = NoLog
  /\ UNCHANGED <<now, cluster, policies, timers, mutex, wk, passes, changes, pollVars, probeVars, watchVars>>

\* the timer function as it would be if a failed Delete armed the timer again
timerDeleteRearms(t, resp) ==
  /\ tm[t].st = "running"
  /\ DeleteAnswers(tm[t].inst, resp)
  /\ cluster' = ClusterAfterDelete(tm[t].inst, resp)
  /\ tm' = IF resp \in {"denied", "transient"}
           THEN [tm EXCEPT ![t].st = "armed", ![t].deadline = now]
           ELSE [tm EXCEPT ![t].st = "cleanup"]
  /\ log' = LogLine(deleteLog(resp), resp)
  /\ UNCHANGED <<now, policies, timers, mutex, wk, passes, changes, pollVars, probeVars, watchVars>>

\* the timer function: the Delete call and its log
timerDelete(t, resp) ==
  /\ tm[t].st = "running"
  /\ DeleteAnswers(tm[t].inst, resp)
  /\ cluster' = ClusterAfterDelete(tm[t].inst, resp)
  /\ tm' = [tm EXCEPT ![t].st = "cleanup"]
  /\ log' = LogLine(deleteLog(resp), resp)
  /\ UNCHANGED <<now, policies, timers, mutex, wk, passes, changes, pollVars, probeVars, watchVars>>

\* the timer function, "Clean up timer": timersMutex.Lock()
timerLock(t) ==
  /\ tm[t].st = "cleanup"
  /\ mutex = FreeMutex
  /\ mutex' = [w |-> 0, t |-> t]
  /\ tm' = [tm EXCEPT ![t].st = "locked"]
  /\ log' = NoLog
  /\ UNCHANGED <<now, cluster, policies, timers, wk, passes, changes, pollVars, probeVars, watchVars>>

\* the timer function as it would be if it unlocked without removing its entry
timerCleanupKeepsEntry(t) ==
  /\ tm[t].st = "locked"
  /\ mutex = [w |-> 0, t |-> t]
  /\ mutex' = FreeMutex
  /\ tm' = [tm EXCEPT ![t].st = "done"]
  /\ log' = NoLog
  /\ UNCHANGED <<now, cluster, policies, timers, wk, passes, changes, pollVars, probeVars, watchVars>>

\* the timer function: delete(r.timers, resourceKey) and Unlock()
timerCleanup(t) ==
  /\ tm[t].st = "locked"
  /\ mutex = [w |-> 0, t |-> t]
  /\ timers' = [timers EXCEPT ![tm[t].key] = NoTimer]
  /\ mutex' = FreeMutex
  /\ tm' = [tm EXCEPT ![t].st = "done"]
  /\ log' = NoLog
  /\ UNCHANGED <<now, cluster, policies, wk, passes, changes, pollVars, probeVars, watchVars>>

Next ==
  \/ Tick
  \/ \E i \in Touched, o \in ClusterShapes : SetInstance(i, o)
  \/ \E i \in Touched : RemoveInstance(i)
  \/ \E w \in Workers, p \in ListedPolicies, f \in BOOLEAN : Reconcile(w, p, f)
  \/ \E w \in Workers, a \in {"ok", "notfound", "error"} : processNamespace(w, a)
  \/ \E w \in Workers : EndPass(w)
  \/ \E w \in Workers : NextItem(w)
  \/ \E w \in Workers : scheduleLock(w)
  \/ \E w \in Workers : scheduleBranch(w)
  \/ \E w \in Workers, r \in DeleteResponses : syncDelete(w, r)
  \/ \E t \in TimerIds : timerFire(t)
  \/ \E t \in TimerIds, r \in DeleteResponses : timerDelete(t, r)
  \/ \E t \in TimerIds : timerLock(t)
  \/ \E t \in TimerIds : timerCleanup(t)

Spec == Init /\ [][Next]_vars

\* ---------------------------------------- the Reconciler, one worker
\* the passes of one worker over instances in both namespaces, with every policy of
\* PolicyTable listed and no other client changing the instances.  The passes are
\* followed up to the timers they arm: the timer functions are part of Spec.
PassShapes ==
  {FinishedObj(f) : f \in {AbsentField, IntField(0 - 1), IntField(1), NumStrField(1),
                           BadStrField}}
    \cup {RunningObj, [FinishedObj(AbsentField) EXCEPT !.alt = IntField(1)]}
    \cup {UnparseableObj(f) : f \in {IntField(0 - 1), IntField(1)}}
    \cup {NoSignalObj(f) : f \in {IntField(0 - 1), IntField(1)}}

InitPass ==
  /\ now = 0
  /\ cluster \in {c \in [Insts -> PassShapes \cup {NoObj}] :
                    c["i3"] = NoObj /\ c["i4"] = NoObj}
  /\ passes = 0
  /\ changes = 0
  /\ log = NoLog
  /\ policies = [p \in Policies |-> TRUE]
  /\ timers = [k \in Keys |-> NoTimer]
  /\ tm = [t \in TimerIds |-> UnusedTimer]
  /\ mutex = FreeMutex
  /\ wk = [w \in Workers |-> IdleWorker]
  /\ PollIdle /\ ProbeIdle /\ WatchIdle

NextPass ==
  \/ Tick
  \/ \E p \in Policies, f \in BOOLEAN : Reconcile(1, p, f)
  \/ \E a \in {"ok", "notfound", "error"} : processNamespace(1, a)
  \/ EndPass(1)
  \/ NextItem(1)
  \/ scheduleLock(1)
  \/ scheduleBranch(1)
  \/ \E r \in DeleteResponses : syncDelete(1, r)

SpecPass == InitPass /\ [][NextPass]_vars

\* ------------------------------------ TTLReaperReconciler (polling)
\* getResourceFromKind: kind + "s"
getResourceFromKind(kind) == IF kind = "" THEN "" ELSE kind \o "s"

\* processTTLCleanup, "Create GroupVersionResource for the target kind"
getGroupFromAPIVersion(apiVersion) ==
  IF apiVersion = "" THEN ""
  ELSE IF Len(split(apiVersion)) > 1 THEN split(apiVersion)[1] ELSE ""

getVersionFromAPIVersion(apiVersion) ==
  IF apiVersion = "" THEN ""
  ELSE IF Len(split(apiVersion)) > 1 THEN split(apiVersion)[2] ELSE split(apiVersion)[1]

Config_GVR(spec) ==
  GVRName(getGroupFromAPIVersion(spec.TargetAPIVersion),
          getVersionFromAPIVersion(spec.TargetAPIVersion),
          getResourceFromKind(spec.TargetKind))

\* processTTLCleanup, "Determine target namespace"
targetNamespace(spec) ==
  IF spec.TargetNamespace = "" THEN spec.Namespace ELSE spec.TargetNamespace

\* getNestedField: (value, found)
getNestedField(obj, fieldPath) ==
  [val |-> FieldAt(obj, fieldPath), found |-> FieldAt(obj, fieldPath).tag # "absent"]

\* processTTLCleanup: config.Spec.TTLFieldPath, DefaultTTLPath when it is empty
ttlFieldPath(spec) == IF spec.TTLFieldPath = "" THEN DefaultTTLPath ELSE spec.TTLFieldPath

\* the resource types the API server serves
ServedGVRs == {InstTable[i].gvr : i \in Insts}

\* what the API server answers to a List of gvr when nothing else goes wrong: a
\* resource type it does not serve is answered with NotFound
ListAnswer(gvr) == IF gvr \in ServedGVRs THEN "ok" ELSE "notfound"

\* another client creates a TTLReaperConfig
CreateConfig(c) ==
  /\ ~cfgs[c].exists
  /\ changes < MaxChanges
  /\ changes' = changes + 1
  /\ cfgs' = [cfgs EXCEPT ![c] = Config(TRUE, FALSE, FALSE)]
  /\ log' = NoLog
  /\ UNCHANGED <<now, cluster, passes, pw, timerVars, probeVars, watchVars>>

\* another client deletes a TTLReaperConfig: the API server marks it while it has a
\* finalizer and removes it otherwise
DeleteConfig(c) ==
  /\ cfgs[c].exists
  /\ ~cfgs[c].deleting
  /\ changes < MaxChanges
  /\ changes' = changes + 1
  /\ cfgs' = [cfgs EXCEPT ![c] = IF cfgs[c].finalizer
                                   THEN Config(TRUE, TRUE, TRUE) ELSE NoConfig]
  /\ log' = NoLog
  /\ UNCHANGED <<now, cluster, passes, pw, timerVars, probeVars, watchVars>>

\* TTLReaperReconciler.Reconcile, and processTTLCleanup up to now := time.Now().
\* listFails: the List call returns an error other than for an unserved type.
Config_Reconcile(c, answer) ==
  /\ pw.pc = "idle"
  /\ passes < MaxPasses
  /\ passes' = passes + 1
  /\ LET spec == ConfigTable[c]
         gvr == Config_GVR(spec)
         items == ListItems(gvr, targetNamespace(spec))
     IN IF ~cfgs[c].exists
        THEN /\ answer = "ok"
             /\ log' = LogFor(c, "reconcile-ok", "")
             /\ UNCHANGED <<cfgs, pw>>
        ELSE IF cfgs[c].deleting
        THEN /\ answer = "ok"
             /\ cfgs' = [cfgs EXCEPT ![c] = NoConfig]
             /\ log' = LogFor(c, "reconcile-ok", "")
             /\ UNCHANGED pw
        ELSE IF ~cfgs[c].finalizer
        THEN /\ answer = "ok"
             /\ cfgs' = [cfgs EXCEPT ![c].finalizer = TRUE]
             /\ log' = LogFor(c, "reconcile-ok", "")
             /\ UNCHANGED pw
        ELSE IF answer # ListAnswer(gvr)
        THEN /\ answer = "error"
             /\ log' = Requeue(LogFor(c, "reconcile-error", answer), 60)
             /\ UNCHANGED <<cfgs, pw>>
        ELSE IF answer # "ok"
        THEN /\ log' = Requeue(LogFor(c, "reconcile-error", answer), 60)
             /\ UNCHANGED <<cfgs, pw>>
        ELSE /\ pw' = [IdlePoll EXCEPT !.pc = "items", !.cfg = c, !.items = items,
                                       !.passNow = now]
             /\ log' = NoLog
             /\ UNCHANGED cfgs
  /\ UNCHANGED <<now, cluster, changes, timerVars, probeVars, watchVars>>

\* processTTLCleanup, one turn of the loop over resourceList.Items up to the
\* decision of shouldDeleteResource, taken against the pass's single reading of now
Config_NextItem ==
  /\ pw.pc = "items"
  /\ pw.items # <<>>
  /\ LET item == Head(pw.items)
         ttlValue == getNestedField(item.obj, ttlFieldPath(ConfigTable[pw.cfg]))
         ttlSeconds == convertToInt64(ttlValue.val)
         counted == [pw EXCEPT !.items = Tail(pw.items),
                               !.processedCount = pw.processedCount + 1]
     IN IF ~ttlValue.found
        THEN pw' = counted /\ log' = NoLog
        ELSE IF ttlSeconds.err
        THEN pw' = counted /\ log' = LogLine("convert-failed", "")
        ELSE IF shouldDeleteResource(item.obj, ttlSeconds.val, pw.passNow)
        THEN pw' = [counted EXCEPT !.pc = "delete", !.cur = item.inst] /\ log' = NoLog
        ELSE pw' = counted /\ log' = NoLog
  /\ UNCHANGED <<now, cluster, passes, changes, cfgs, timerVars, probeVars, watchVars>>

\* processTTLCleanup, the Delete call: an error other than not-found is logged and the
\* loop continues; anything else counts as deleted
Config_Delete(resp) ==
  /\ pw.pc = "delete"
  /\ DeleteAnswers(pw.cur, resp)
  /\ cluster' = ClusterAfterDelete(pw.cur, resp)
  /\ IF resp \notin {"ok", "notfound"}
     THEN /\ pw' = [pw EXCEPT !.pc = "items", !.cur = NoInst]
          /\ log' = LogLine("delete-failed", resp)
     ELSE /\ pw' = [pw EXCEPT !.pc = "items", !.cur = NoInst,
                              !.deletedCount = pw.deletedCount + 1]
          /\ log' = LogLine("delete-succeeded", resp)
  /\ UNCHANGED <<now, passes, changes, cfgs, timerVars, probeVars, watchVars>>

\* scheduleNextReconcile: the RequeueAfter of the result, in seconds
scheduleNextReconcile(spec) ==
  IF spec.CheckInterval # NilInterval THEN spec.CheckInterval ELSE DefaultInterval

\* processTTLCleanup, after the loop: "TTL cleanup completed", scheduleNextReconcile
Config_EndPass ==
  /\ pw.pc = "items"
  /\ pw.items = <<>>
  /\ pw' = IdlePoll
  /\ log' = Requeue(LogFor(pw.cfg, "cleanup-completed", ""),
                    scheduleNextReconcile(ConfigTable[pw.cfg]))
  /\ UNCHANGED <<now, cluster, passes, changes, cfgs, timerVars, probeVars, watchVars>>

\* a TTLReaperConfig as the controller can find it when it starts
ConfigShapes ==
  {NoConfig, Config(TRUE, FALSE, FALSE), Config(TRUE, TRUE, FALSE), Config(TRUE, TRUE, TRUE)}

InitPoll ==
  /\ now = 0
  /\ cluster \in {c \in [Insts -> ClusterShapes \cup {NoObj}] :
                    /\ c["i2"] \in {NoObj, FinishedObj(IntField(1))}
                    /\ c["i3"] = NoObj /\ c["i4"] = NoObj}
  /\ passes = 0
  /\ changes = 0
  /\ log = NoLog
  /\ TimerInit /\ ProbeIdle /\ WatchIdle
  /\ cfgs \in [Configs -> ConfigShapes]
  /\ pw = IdlePoll

NextPoll ==
  \/ Tick
  \/ \E i \in Touched, o \in ClusterShapes : SetInstance(i, o)
  \/ \E i \in Touched : RemoveInstance(i)
  \/ \E c \in Configs : CreateConfig(c)
  \/ \E c \in Configs : DeleteConfig(c)
  \/ \E c \in Configs, a \in {"ok", "notfound", "error"} : Config_Reconcile(c, a)
  \/ Config_NextItem
  \/ \E r \in DeleteResponses : Config_Delete(r)
  \/ Config_EndPass

SpecPoll == InitPoll /\ [][NextPoll]_vars

\* ------------------------------------------------- passes without end
\* the informer keeps delivering the policies to the work queue (resync, policy
\* updates, events of the watched kinds): the count of passes starts again
Resync ==
  /\ passes = MaxPasses
  /\ \A w \in Workers : wk[w].pc = "idle"
  /\ passes' = 0
  /\ log' = NoLog
  /\ UNCHANGED <<now, cluster, changes, timerVars, pollVars, probeVars, watchVars>>

\* finished instances that nothing but the reconciler touches
LiveShapes ==
  {FinishedObj(f) : f \in {IntField(0), IntField(1), IntField(2), NumStrField(1)}}

InitLive ==
  /\ now = 0
  /\ cluster \in {c \in [Insts -> LiveShapes \cup {NoObj}] :
                    \A i \in Insts \ Touched : c[i] = NoObj}
  /\ passes = 0
  /\ changes = 0
  /\ log = NoLog
  /\ TimerInit /\ PollIdle /\ ProbeIdle /\ WatchIdle

NextLive ==
  \/ Tick
  \/ Resync
  \/ Reconcile(1, "p1", FALSE)
  \/ \E a \in {"ok", "notfound", "error"} : processNamespace(1, a)
  \/ EndPass(1)
  \/ NextItem(1)
  \/ scheduleLock(1)
  \/ scheduleBranch(1)
  \/ \E r \in DeleteResponses : syncDelete(1, r)
  \/ \E t \in TimerIds : timerFire(t)
  \/ \E t \in TimerIds, r \in DeleteResponses : timerDelete(t, r)
  \/ \E t \in TimerIds : timerLock(t)
  \/ \E t \in TimerIds : timerCleanup(t)

\* time passes, the worker and the timer functions keep running, policy p1
\* keeps being reconciled, and a List or a Delete that is tried again and again
\* eventually succeeds
FairLive ==
  /\ WF_vars(Tick)
  /\ WF_vars(Resync)
  /\ WF_vars(Reconcile(1, "p1", FALSE))
  /\ SF_vars(processNamespace(1, "ok"))
  /\ WF_vars(EndPass(1))
  /\ WF_vars(NextItem(1))
  /\ WF_vars(scheduleLock(1))
  /\ WF_vars(scheduleBranch(1))
  /\ SF_vars(syncDelete(1, "ok"))
  /\ SF_vars(syncDelete(1, "notfound"))
  /\ \A t \in TimerIds :
       /\ WF_vars(timerFire(t))
       /\ SF_vars(timerDelete(t, "ok"))
       /\ SF_vars(timerDelete(t, "notfound"))
       /\ WF_vars(timerLock(t))
       /\ WF_vars(timerCleanup(t))

SpecLive == InitLive /\ [][NextLive]_vars /\ FairLive

\* ------------------------------------------------- the watch registry
\* the lister never fails: it reads the informer's cache
\* another client creates policy p; HandleAll(impl.Enqueue) queues it
CreatePolicy(p) ==
  /\ ~policies[p]
  /\ edits < MaxEdits
  /\ edits' = edits + 1
  /\ policies' = [policies EXCEPT ![p] = TRUE]
  /\ workQueue' = workQueue \cup {p}
  /\ log' = NoLog
  /\ UNCHANGED <<now, cluster, passes, changes, timers, tm, mutex, wk, pollVars,
                 probeVars, watchedGVRs, dynamicInformers, events>>

\* another client deletes policy p; HandleAll(impl.Enqueue) queues its key
DeletePolicy(p) ==
  /\ policies[p]
  /\ edits < MaxEdits
  /\ edits' = edits + 1
  /\ policies' = [policies EXCEPT ![p] = FALSE]
  /\ workQueue' = workQueue \cup {p}
  /\ log' = NoLog
  /\ UNCHANGED <<now, cluster, passes, changes, timers, tm, mutex, wk, pollVars,
                 probeVars, watchedGVRs, dynamicInformers, events>>

\* a worker of the controller takes policy p from the work queue
Dequeue(p) ==
  /\ p \in workQueue
  /\ workQueue' = workQueue \ {p}
  /\ log' = NoLog
  /\ UNCHANGED <<now, cluster, passes, changes, timerVars, pollVars, probeVars,
                 watchedGVRs, dynamicInformers, events, edits>>

\* watchTargetResources, "Collect all unique GVRs that TTLReapers are targeting"
targetGVRs ==
  {parseTargetGVR(PolicyTable[p].TargetKind, PolicyTable[p].TargetAPIVersion).gvr :
     p \in {q \in Policies :
              /\ policies[q]
              /\ ~parseTargetGVR(PolicyTable[q].TargetKind,
                                 PolicyTable[q].TargetAPIVersion).err}}

\* one tick of watchTargetResources as it would be without the test of watchedGVRs
watchEveryTarget ==
  /\ dynamicInformers' = [g \in GVRs |-> IF g \in targetGVRs
                                         THEN dynamicInformers[g] + 1
                                         ELSE dynamicInformers[g]]
  /\ watchedGVRs' = watchedGVRs \cup targetGVRs
  /\ log' = NoLog
  /\ UNCHANGED <<now, cluster, passes, changes, timerVars, pollVars, probeVars,
                 events, workQueue, edits>>

\* one tick of watchTargetResources: startWatchingGVR for every locator not yet in
\* watchedGVRs
watchTargetResources ==
  /\ dynamicInformers' = [g \in GVRs |-> IF g \in targetGVRs \ watchedGVRs
                                         THEN dynamicInformers[g] + 1
                                         ELSE dynamicInformers[g]]
  /\ watchedGVRs' = watchedGVRs \cup targetGVRs
  /\ log' = NoLog
  /\ UNCHANGED <<now, cluster, passes, changes, timerVars, pollVars, probeVars,
                 events, workQueue, edits>>

\* the locator the API server serves instance i under
InstLocator(i) == parseTargetGVR(InstTable[i].kind, InstTable[i].apiVersion).gvr

\* an informer started by startWatchingGVR notices an add or an update of instance i
\* (its first listing and its resyncs included)
Notify(i) ==
  /\ cluster[i] # NoObj
  /\ dynamicInformers[InstLocator(i)] > 0
  /\ i \notin events
  /\ events' = events \cup {i}
  /\ log' = NoLog
  /\ UNCHANGED <<now, cluster, passes, changes, timerVars, pollVars, probeVars,
                 watchedGVRs, dynamicInformers, workQueue, edits>>

\* enqueueTargetingTTLReapers as it would be if it compared locators
enqueueSameLocator(targetKind, targetAPIVersion) ==
  workQueue \cup
    {p \in Policies :
       /\ policies[p]
       /\ parseTargetGVR(PolicyTable[p].TargetKind, PolicyTable[p].TargetAPIVersion)
            = parseTargetGVR(targetKind, targetAPIVersion)}

\* enqueueTargetingTTLReapers: the work queue after it
enqueueTargetingTTLReapers(targetKind, targetAPIVersion) ==
  workQueue \cup
    {p \in Policies :
       /\ policies[p]
       /\ PolicyTable[p].TargetKind = targetKind
       /\ PolicyTable[p].TargetAPIVersion = targetAPIVersion}

\* AddFunc and UpdateFunc of the informer, called with instance i
eventHandler(i) ==
  /\ i \in events
  /\ events' = events \ {i}
  /\ workQueue' = enqueueTargetingTTLReapers(InstTable[i].kind, InstTable[i].apiVersion)
  /\ log' = NoLog
  /\ UNCHANGED <<now, cluster, passes, changes, timerVars, pollVars, probeVars,
                 watchedGVRs, dynamicInformers, edits>>

\* the controller starts with any set of policies in the lister
\* the policies and instances of the watch runs
WatchPolicies == {"p1", "p2", "p3", "p4", "p5", "p6"}
WatchInsts == {"i1", "i2"}

InitWatch ==
  /\ now = 0
  /\ cluster = [i \in Insts |-> IF i \in WatchInsts THEN FinishedObj(IntField(1))
                                                   ELSE NoObj]
  /\ passes = 0
  /\ changes = 0
  /\ log = NoLog
  /\ policies \in {f \in [Policies -> BOOLEAN] : \A p \in Policies \ WatchPolicies : ~f[p]}
  /\ timers = [k \in Keys |-> NoTimer]
  /\ tm = [t \in TimerIds |-> UnusedTimer]
  /\ mutex = FreeMutex
  /\ wk = [w \in Workers |-> IdleWorker]
  /\ PollIdle /\ ProbeIdle /\ WatchIdle

NextWatch ==
  \/ \E p \in WatchPolicies : CreatePolicy(p)
  \/ \E p \in WatchPolicies : DeletePolicy(p)
  \/ \E p \in WatchPolicies : Dequeue(p)
  \/ watchTargetResources
  \/ \E i \in Insts : Notify(i)
  \/ \E i \in Insts : eventHandler(i)

SpecWatch == InitWatch /\ [][NextWatch]_vars

\* ------------------------------------------------- locator resolution, applied
\* reconcileTTLReaper from "Validate required fields" to "Create the
\* GroupVersionResource": (locator, err)
reconcileLocator(targetKind, targetAPIVersion) ==
  IF \/ targetKind = ""
     \/ targetAPIVersion = ""
     \/ ParseGroupVersion(targetAPIVersion).err
  THEN [gvr |-> NoGVR, err |-> TRUE]
  ELSE [gvr |-> GVR(ParseGroupVersion(targetAPIVersion).Group,
                    ParseGroupVersion(targetAPIVersion).Version,
                    getResourceName(targetKind)),
        err |-> FALSE]

\* processTTLCleanup, "Create GroupVersionResource for the target kind"
Config_Locator(targetKind, targetAPIVersion) ==
  GVR(getGroupFromAPIVersion(targetAPIVersion),
      getVersionFromAPIVersion(targetAPIVersion),
      getResourceFromKind(targetKind))

\* kinds and apiVersions a policy may name
KindDomain ==
  {"Job", "job", "Pod", "PipelineRun", "Gateway", "Policy", "Proxy", "Ingress", "Class",
   "Box", "Quiz", ""}
APIVersionDomain ==
  {"batch/v1", "v1", "tekton.dev/v1beta1", "example.com/v1", "a/b/c", ""}

\* one application of the locator functions of the registry and of both
\* reconcilers to target
Resolve ==
  /\ ~locators.done
  /\ locators' = [done |-> TRUE,
                  watch |-> parseTargetGVR(target.kind, target.apiVersion),
                  list |-> reconcileLocator(target.kind, target.apiVersion),
                  poll |-> Config_Locator(target.kind, target.apiVersion)]
  /\ log' = NoLog
  /\ UNCHANGED <<now, cluster, passes, changes, probe, verdict, target, timerVars,
                 pollVars, watchVars>>

InitResolve ==
  /\ ClusterInit /\ TimerInit /\ PollIdle /\ WatchIdle
  /\ \A i \in Insts : cluster[i] = NoObj
  /\ probe = NoObj
  /\ verdict = NoVerdict
  /\ target \in [kind : KindDomain, apiVersion : APIVersionDomain]
  /\ locators = NoLocators

NextResolve == Resolve

SpecResolve == InitResolve /\ [][NextResolve]_vars

\* ------------------------------------------------- the classifier, applied
\* conditions and objects the classifier functions are applied to
CondTypes == {"Succeeded", "Completed", "Ready"}
CondStatuses == {"True", "False"}
Cond(type, status, ltt) == [type |-> type, status |-> status, ltt |-> ltt]
CondDomain ==
  {Cond(ty, st, l) : ty \in CondTypes, st \in CondStatuses, l \in {NoLTT} \cup Time}
CondSeqs ==
  {<<>>} \cup {<<c>> : c \in CondDomain} \cup {<<c, d>> : c \in CondDomain, d \in CondDomain}
PhaseDomain == {PhaseAbsent, "Running", "Succeeded", "Failed", "Completed"}
CompletionDomain == {AbsentField, BadStrField} \cup {TimeStrField(t) : t \in Time}
ObjDomain ==
  {Obj(IntField(1), ph, cs, ct, 0) :
     ph \in PhaseDomain, cs \in CondSeqs, ct \in CompletionDomain}

\* one application of the classifier functions of both reconcilers to probe
Classify ==
  /\ ~verdict.done
  /\ verdict' = [done |-> TRUE,
                 finished |-> isResourceFinished(probe),
                 finishTime |-> finishTime(probe),
                 cfgFinished |-> Config_isResourceFinished(probe),
                 cfgCompletion |-> getResourceCompletionTime(probe)]
  /\ log' = NoLog
  /\ UNCHANGED <<now, cluster, passes, changes, probe, target, locators, timerVars,
                 pollVars, watchVars>>

InitClassify ==
  /\ ClusterInit /\ TimerInit /\ PollIdle /\ WatchIdle
  /\ \A i \in Insts : cluster[i] = NoObj
  /\ probe \in ObjDomain
  /\ verdict = NoVerdict
  /\ target = NoTarget
  /\ locators = NoLocators

NextClassify == Classify

SpecClassify == InitClassify /\ [][NextClassify]_vars

\* ------------------------------------------------------------------ claims
\* a timer that is installed, not cancelled, and whose function has not returned
Pending(t) == tm[t].st \in {"armed", "running", "cleanup", "locked"}
PendingTimers(k) == {t \in TimerIds : tm[t].key = k /\ Pending(t)}

\* C1: in every reachable state each resource key has at most one registry entry
\* (timers is a map) and at most one pending timer.
C1_AtMostOnePendingTimer ==
  \A k \in Keys : Cardinality(PendingTimers(k)) <= 1

\* C2: when a schedule call registers a timer for a key, that timer is the only live
\* (armed) timer of the key: every timer an earlier call installed is stopped.
C2_OneLiveTimerAfterReschedule ==
  [][\A k \in Keys :
       (timers'[k] # NoTimer /\ timers'[k] # timers[k])
         => {t \in TimerIds : tm'[t].key = k /\ tm'[t].st = "armed"} = {timers'[k]}]_vars

\* C3: a timer that a later schedule has replaced (another timer is registered for
\* its key) never issues a delete, also when its function was already running when it
\* was replaced.
C3_ReplacedTimerNeverDeletes ==
  [][\A t \in TimerIds :
       (tm[t].st = "running" /\ tm'[t].st = "cleanup")
         => timers[tm[t].key] \in {t, NoTimer}]_vars

\* C4: the clean-up of a timer function never removes a registry entry that belongs
\* to another timer, installed by a later schedule for the same key.
C4_CleanupRemovesOnlyOwnEntry ==
  [][\A t \in TimerIds :
       (tm[t].st = "locked" /\ tm'[t].st = "done" /\ timers[tm[t].key] # t)
         => timers' = timers]_vars

\* the instance as it exists has a readable TTL, is finished, and has not expired
BeforeExpiration(i) ==
  LET o == cluster[i]
      ttl == NestedInt64(o.ttl)
  IN /\ o # NoObj
     /\ ttl.found /\ ~ttl.err
     /\ isResourceFinished(o)
     /\ now < expirationTime(o, ttl.val)

\* C6: no delete call, from a pass or from a timer, is issued for an instance before
\* the expiration instant of the instance as it exists when the call is issued.
C6_NoDeleteBeforeExpiration ==
  [][/\ \A t \in TimerIds :
          (tm[t].st = "running" /\ tm'[t].st = "cleanup") => ~BeforeExpiration(tm[t].inst)
     /\ \A w \in Workers :
          (wk[w].pc = "delete" /\ wk'[w].pc # "delete") => ~BeforeExpiration(wk[w].cur)]_vars

\* C7: an instance with a negative TTL is rejected before scheduling: no pass issues
\* a delete for it.
C7_NegativeTTLNeverDeleted ==
  [][\A w \in Workers :
       (wk[w].pc = "delete" /\ wk'[w].pc # "delete") => wk[w].ttl >= 0]_vars

\* C8: a delete that the API answers with not-found (the instance is already gone)
\* is treated as a success, not as a failed deletion.
C8_AlreadyGoneIsSuccess ==
  log.resp = "notfound" => log.msg # "delete-failed"

\* C5: a pass of the polling reconciler that meets a finished instance with a TTL
\* issues a delete for it if and only if the pass's now is at or after the completion
\* instant plus the TTL, the instant of expiration included.
C5_PassDeletesIffExpired ==
  [][(pw.pc = "items" /\ pw.items # <<>> /\ pw' # pw)
       => LET o == Head(pw.items).obj
              ttl == convertToInt64(o.ttl)
          IN (/\ getNestedField(o, ttlFieldPath(ConfigTable[pw.cfg])).found
              /\ ~ttl.err
              /\ Config_isResourceFinished(o)
              /\ getResourceCompletionTime(o) # ZeroTime)
               => (pw'.pc = "delete"
                     <=> pw.passNow >= getResourceCompletionTime(o) + ttl.val)]_vars

\* the lastTransitionTime of the first matching condition that has one
RECURSIVE FirstMatchingLTT(_, _)
FirstMatchingLTT(conds, j) ==
  IF j > Len(conds) THEN NoLTT
  ELSE IF MatchingCondition(conds[j]) /\ conds[j].ltt # NoLTT THEN conds[j].ltt
  ELSE FirstMatchingLTT(conds, j + 1)

\* the order of resolution the specification states
ClaimedCompletionInstant(o) ==
  IF NestedStringFound(o.ct) /\ ParsesRFC3339(o.ct) THEN o.ct.val
  ELSE IF FirstMatchingLTT(o.conds, 1) # NoLTT THEN FirstMatchingLTT(o.conds, 1)
  ELSE o.created

\* C9: the completion instant of a finished instance is status.completionTime when it
\* parses, else the lastTransitionTime of a matching condition, else the creation time.
C9_CompletionInstantOrder ==
  (verdict.done /\ verdict.finished)
    => verdict.finishTime = ClaimedCompletionInstant(probe)

\* C10: an instance is classified finished whenever its phase is Succeeded, Failed or
\* Completed, or it has a matching condition, whatever the other signal says.
C10_IndependentFinishedSignals ==
  (/\ verdict.done
   /\ \/ probe.phase \in {"Succeeded", "Failed", "Completed"}
      \/ \E j \in 1..Len(probe.conds) : MatchingCondition(probe.conds[j]))
    => verdict.finished

\* C11: a pass treats an instance whose TTL is a numeric string exactly as the same
\* instance with that integer: when it is finished the pass goes on to schedule it,
\* with the number the string holds as its TTL.
C11_NumericStringAsInteger ==
  [][\A w \in Workers :
       (/\ wk[w].pc = "items" /\ wk[w].items # <<>> /\ wk'[w] # wk[w]
        /\ Head(wk[w].items).obj.ttl.tag = "numstr"
        /\ isResourceFinished(Head(wk[w].items).obj))
         => (wk'[w].pc = "lock" /\ wk'[w].ttl = Head(wk[w].items).obj.ttl.val)]_vars

\* C12: list failures are isolated per namespace.  A pass of a cluster-wide policy
\* starts with every namespace to visit; a namespace leaves the list to visit only one
\* at a time, from the head, after its items are exhausted or its List did not
\* succeed; a List that succeeds hands every instance of the namespace to the item
\* loop; and the pass ends only when no namespace is left to visit.
C12_ListFailureIsolated ==
  [][\A w \in Workers :
       /\ (wk[w].pc = "idle" /\ wk'[w].pc # "idle"
             /\ PolicyTable[wk'[w].pol].TargetNamespace = "")
            => wk'[w].nsq = Namespaces
       /\ (wk[w].pc # "idle" /\ wk'[w].pc = "idle") => wk[w].nsq = <<>>
       /\ (wk[w].pc # "idle" /\ wk'[w].nsq # wk[w].nsq)
            => /\ wk'[w].nsq = Tail(wk[w].nsq)
               /\ wk'[w].pc = "namespaces"
               /\ wk[w].pc = "items" => wk[w].items = <<>>
       /\ (wk[w].pc = "namespaces" /\ wk'[w].pc = "items")
            => wk'[w].items
                 = ListItems(targetGVR(PolicyTable[wk[w].pol]), Head(wk[w].nsq))]_vars

\* the List of namespace a has just failed in a cluster-wide pass, and the pass goes
\* on with namespace b, which holds a finished instance with a TTL
C12_FailureThenOtherNamespace ==
  \E w \in Workers :
    /\ wk[w].pol = "p2" /\ wk[w].pc = "namespaces" /\ wk[w].nsq = <<"b">>
    /\ log = LogFor("p2", "namespace-error", "")
    /\ cluster["i2"] = FinishedObj(IntField(1))

\* C13: a List answered with "resource type not registered" (NotFound) is an empty
\* result: no pass reports a failure for it
C13_NotFoundListIsEmptyResult ==
  log.msg = "reconcile-error" => log.resp # "notfound"

\* a TTL field read as a non-negative integer, numeric strings included
NonNegativeTTL(f) == ~convertToInt64(f).err /\ convertToInt64(f).val >= 0

\* C14: an instance whose TTL is present but is not a non-negative integer is skipped:
\* the turn of the item loop taken on it neither deletes nor schedules, and goes on
\* with the other instances of the list
C14_InvalidTTLSkipped ==
  [][\A w \in Workers :
       (/\ wk[w].pc = "items" /\ wk[w].items # <<>> /\ wk'[w] # wk[w]
        /\ Head(wk[w].items).obj.ttl.tag # "absent"
        /\ ~NonNegativeTTL(Head(wk[w].items).obj.ttl))
         => (wk'[w].pc = "items" /\ wk'[w].items = Tail(wk[w].items))]_vars

\* the validation of a policy: targetKind and targetAPIVersion are given and
\* targetAPIVersion is "version" or "group/version"
InvalidSpec(spec) ==
  \/ spec.TargetKind = ""
  \/ spec.TargetAPIVersion = ""
  \/ ParseGroupVersionFails(spec.TargetAPIVersion)

\* C15: a policy that does not pass the validation never gets a pass that lists,
\* schedules or deletes: no worker ever holds the items of a List made for it
C15_InvalidPolicyNeverLists ==
  /\ \A c \in Configs : InvalidSpec(ConfigTable[c]) => pw.cfg # c
  /\ \A w \in Workers :
       wk[w].pc # "idle" => ~InvalidSpec(PolicyTable[wk[w].pol])

\* C16: a delete refused for lack of permission has an outcome of its own: what is
\* recorded for it is not what is recorded for a transient failure
C16_DeniedDistinctFromTransient ==
  log.resp = "denied" => log.msg # deleteLog("transient")

\* C17: a timer never retries by itself.  The function of a timer only moves forward,
\* from running through its one Delete to the removal of its registry entry; the
\* Delete it issues ends its running state for good; the steps after the Delete touch
\* neither the cluster nor the log; and no step of the function installs a timer.
C17_TimerNeverRetries ==
  [][/\ \A t \in TimerIds :
          /\ tm[t].st = "running" => tm'[t].st \in {"running", "cleanup"}
          /\ tm[t].st = "cleanup" => tm'[t].st \in {"cleanup", "locked"}
          /\ tm[t].st = "locked" => tm'[t].st \in {"locked", "done"}
          /\ tm[t].st = "done" => tm'[t] = tm[t]
          /\ (tm[t].st \in {"running", "cleanup", "locked"} /\ tm'[t].st # tm[t].st)
               => UsedTimers' = UsedTimers
          /\ (tm[t].st \in {"cleanup", "locked"} /\ tm'[t].st # tm[t].st)
               => (cluster' = cluster /\ log' = NoLog)
          /\ (tm[t].st = "locked" /\ tm'[t].st = "done")
               => timers' = [timers EXCEPT ![tm[t].key] = NoTimer]
     /\ (wk' = wk /\ log'.msg \in {deleteLog("ok"), deleteLog("transient")})
          => \E t \in TimerIds : tm[t].st = "running" /\ tm'[t].st = "cleanup"]_vars

\* the only timer ever installed has run to its end, its Delete failed (the instance
\* is still the one it was armed for) and nothing is installed in its place
C17_FailedTimerIsDone ==
  \E t \in TimerIds :
    /\ UsedTimers = {t}
    /\ tm[t].st = "done"
    /\ cluster[tm[t].inst] # NoObj
    /\ changes = 0
    /\ timers[tm[t].key] = NoTimer

\* instance i is present and finished, its TTL reads as a non-negative integer and its
\* expiration instant has passed
ExpiredPresent(i) ==
  /\ cluster[i] # NoObj
  /\ isResourceFinished(cluster[i])
  /\ NonNegativeTTL(cluster[i].ttl)
  /\ now >= expirationTime(cluster[i], convertToInt64(cluster[i].ttl).val)

\* C18: eventual deletion.  While every policy keeps being reconciled and a Delete that
\* is tried again and again eventually succeeds, a present, finished instance with a
\* valid TTL whose expiration instant has passed is eventually deleted
C18_EventualDeletion ==
  \A i \in Insts : ExpiredPresent(i) ~> cluster[i] = NoObj

\* C19: once a locator is watched, the handling of every add or update notification
\* of one of its instances puts into the work queue every policy the lister then holds
\* whose targetKind and targetAPIVersion are those of the instance, and no other
\* policy; and nothing but its handling takes a notification away
C19_EventEnqueuesTargetingPolicies ==
  [][\A i \in Insts :
       (i \in events /\ i \notin events')
         => workQueue' = workQueue \cup
                           {p \in Policies :
                              /\ policies[p]
                              /\ PolicyTable[p].TargetKind = InstTable[i].kind
                              /\ PolicyTable[p].TargetAPIVersion
                                   = InstTable[i].apiVersion}]_vars

\* no policy has been created or deleted, the lister holds p1, p2 (Job, batch/v1), p4
\* (no apiVersion) and p6 (kind "job"), and the handling of a Job event has queued
\* p1 and p2 alone
C19_JobEventQueuedExactPairs ==
  /\ edits = 0
  /\ policies["p1"] /\ policies["p2"] /\ policies["p4"] /\ policies["p6"]
  /\ InstLocator("i1") \in watchedGVRs
  /\ events = {}
  /\ workQueue = {"p1", "p2"}

\* C20: the watched locators only grow, and no locator ever gets a second informer:
\* a locator is watched exactly when one informer has been started for it
C20_WatchesOnlyGrowOnePerLocator ==
  /\ [](\A g \in GVRs : /\ dynamicInformers[g] <= 1
                        /\ g \in watchedGVRs <=> dynamicInformers[g] = 1)
  /\ [][/\ watchedGVRs \subseteq watchedGVRs'
        /\ \A g \in GVRs : dynamicInformers'[g] >= dynamicInformers[g]]_vars

\* the locator of Job is watched by its one informer although no policy targets it
\* any more, with policy edits made since the controller started
C20_WatchedWithoutPolicy ==
  /\ InstLocator("i1") \in watchedGVRs
  /\ dynamicInformers[InstLocator("i1")] = 1
  /\ InstLocator("i1") \notin targetGVRs
  /\ edits = MaxEdits

\* C21: locator resolution is stable: the watch registry and the reconciliation loop
\* resolve every targetKind and targetAPIVersion the same way, to the same locator or
\* both to none
C21_SameLocatorWatchedAndListed ==
  locators.done => locators.watch = locators.list

\* the pluralization rule: lower case; a trailing y becomes ies; a trailing s, x or z
\* gets es; anything else gets s
PluralRule(kind) ==
  LET l == ToLower(kind)
      last == IF l = "" THEN "" ELSE CharAt(l, Len(l))
  IN IF last = "y" THEN SubSeq(l, 1, Len(l) - 1) \o "ies"
     ELSE IF last \in {"s", "x", "z"} THEN l \o "es"
     ELSE l \o "s"

\* C22: the plural resource name of a locator is derived from targetKind by the
\* pluralization rule, in the reconciliation loop of either reconciler
C22_ResourceFollowsPluralRule ==
  (locators.done /\ target.kind # "")
    => /\ ~locators.list.err => locators.list.gvr.Resource = PluralRule(target.kind)
       /\ locators.poll.Resource = PluralRule(target.kind)

\* the instances of the kind a TTLReaperConfig names that exist, in any namespace
InstancesOfKind(spec) ==
  {i \in Insts : cluster[i] # NoObj /\ InstTable[i].gvr = Config_GVR(spec)}

\* C23: a policy with an empty targetNamespace is cluster-wide, a policy with a
\* targetNamespace processes that namespace only: the List of a pass returns the
\* instances of the kind of every namespace in the first case, of the named namespace
\* in the second
C23_EmptyNamespaceIsClusterWide ==
  [][(pw.pc = "idle" /\ pw'.pc = "items")
       => {pw'.items[j].inst : j \in 1..Len(pw'.items)}
            = {i \in InstancesOfKind(ConfigTable[pw'.cfg]) :
                 \/ ConfigTable[pw'.cfg].TargetNamespace = ""
                 \/ ConfigTable[pw'.cfg].TargetNamespace = InstTable[i].ns}]_vars

\* spec.ttlFieldPath as the author of each TTLReaper wrote it.  TTLReaperSpec has no
\* field for it: the objects of the lister do not carry it.
PolicyTTLFieldPath == [p \in Policies |-> IF p = "p6" THEN AltTTLPath ELSE ""]
\* the path the TTL of the instances of policy p is to be read at
PolicyPath(p) == IF PolicyTTLFieldPath[p] = "" THEN DefaultTTLPath ELSE PolicyTTLFieldPath[p]

\* C24: the TTL of an instance is read at the ttlFieldPath of the policy, by default
\* spec.ttlSecondsAfterFinished: a finished instance with a TTL at that path is
\* scheduled with that TTL, and one with no TTL at that path is not scheduled, whatever
\* it carries elsewhere
C24_TTLReadAtPolicyPath ==
  [][\A w \in Workers :
       (/\ wk[w].pc = "items" /\ wk[w].items # <<>> /\ wk'[w] # wk[w]
        /\ isResourceFinished(Head(wk[w].items).obj))
         => LET f == FieldAt(Head(wk[w].items).obj, PolicyPath(wk[w].pol))
            IN /\ (f.tag = "int64" /\ f.val >= 0)
                    => (wk'[w].pc = "lock" /\ wk'[w].ttl = f.val)
               /\ f.tag = "absent" => wk'[w].pc = "items"]_vars

\* C25: every completed pass of an existing policy is followed by a further pass at
\* the checkInterval of the policy, 300 seconds when unset: the pass returns with a
\* requeue after that interval
C25_PassRequeuedAtCheckInterval ==
  /\ (log.msg = "cleanup-completed" /\ log.key \in Configs)
       => log.after = (IF ConfigTable[log.key].CheckInterval = NilInterval
                       THEN 300 ELSE ConfigTable[log.key].CheckInterval)
  /\ (log.msg = "reconcile-ok" /\ log.key \in Policies)
       => (policies[log.key] => log.after = 300)

\* C26: the engine only reads policy objects and only deletes target instances: a
\* step that starts a reconcile call leaves every policy object as it is, and a step
\* that is not a change made by another client leaves every instance as it is or
\* deletes it
C26_EngineOnlyDeletes ==
  [][/\ passes' # passes => (cfgs' = cfgs /\ policies' = policies)
     /\ changes' = changes
          => \A i \in Insts : cluster'[i] \in {cluster[i], NoObj}]_vars

\* ------------------------------------------------- two instances, one resource key
\* policies p1 and p7 target Job in batch/v1 and Job in example.com/v1, both in
\* namespace a: the instances i1 and i3 they match differ in the API group only
KeyPolicies == {"p1", "p7"}
KeyInsts == {"i1", "i3"}
KeyShapes == {FinishedObj(IntField(1)), FinishedObj(IntField(2))}

InitKeys ==
  /\ now = 0
  /\ cluster \in {c \in [Insts -> KeyShapes \cup {NoObj}] :
                    \A i \in Insts \ KeyInsts : c[i] = NoObj}
  /\ passes = 0
  /\ changes = 0
  /\ log = NoLog
  /\ policies = [p \in Policies |-> p \in KeyPolicies]
  /\ timers = [k \in Keys |-> NoTimer]
  /\ tm = [t \in TimerIds |-> UnusedTimer]
  /\ mutex = FreeMutex
  /\ wk = [w \in Workers |-> IdleWorker]
  /\ PollIdle /\ ProbeIdle /\ WatchIdle

NextKeys ==
  \/ Tick
  \/ \E w \in Workers, p \in KeyPolicies : Reconcile(w, p, FALSE)
  \/ \E w \in Workers : processNamespace(w, "ok")
  \/ \E w \in Workers : EndPass(w)
  \/ \E w \in Workers : NextItem(w)
  \/ \E w \in Workers : scheduleLock(w)
  \/ \E w \in Workers : scheduleBranch(w)
  \/ \E w \in Workers, r \in DeleteResponses : syncDelete(w, r)
  \/ \E t \in TimerIds : timerFire(t)
  \/ \E t \in TimerIds, r \in DeleteResponses : timerDelete(t, r)
  \/ \E t \in TimerIds : timerLock(t)
  \/ \E t \in TimerIds : timerCleanup(t)

SpecKeys == InitKeys /\ [][NextKeys]_vars

\* C27: scheduling the deletion of one instance never cancels, replaces or removes
\* the timer of a different instance, also when the two instances share namespace,
\* kind and name and differ in API group/version
C27_ScheduleLeavesOtherTimers ==
  [][\A w \in Workers :
       (wk[w].pc = "lock" /\ wk'[w].pc = "locked")
         => \A t \in TimerIds :
              (tm[t].st = "armed" /\ tm[t].inst # wk[w].cur)
                => /\ tm'[t] = tm[t]
                   /\ timers'[tm[t].key] = timers[tm[t].key]]_vars

\* ------------------------------------------------- two schedule calls, one registry
\* the two workers reconcile policies p1 and p2, which both match instance i1,
\* while its timers run
InitMutex ==
  /\ now = 0
  /\ cluster \in {c \in [Insts -> KeyShapes \cup {NoObj}] :
                    \A i \in Insts \ Touched : c[i] = NoObj}
  /\ passes = 0
  /\ changes = 0
  /\ log = NoLog
  /\ TimerInit /\ PollIdle /\ ProbeIdle /\ WatchIdle

NextMutex ==
  \/ Tick
  \/ \E w \in Workers, p \in ListedPolicies : Reconcile(w, p, FALSE)
  \/ \E w \in Workers : processNamespace(w, "ok")
  \/ \E w \in Workers : EndPass(w)
  \/ \E w \in Workers : NextItem(w)
  \/ \E w \in Workers : scheduleLock(w)
  \/ \E w \in Workers : scheduleBranch(w)
  \/ \E w \in Workers, r \in DeleteResponses : syncDelete(w, r)
  \/ \E t \in TimerIds : timerFire(t)
  \/ \E t \in TimerIds, r \in DeleteResponses : timerDelete(t, r)
  \/ \E t \in TimerIds : timerLock(t)
  \/ \E t \in TimerIds : timerCleanup(t)

SpecMutex == InitMutex /\ [][NextMutex]_vars

\* the actors between timersMutex.Lock() and Unlock(): schedule calls and timer
\* functions
InsideRegistry ==
  {<<"worker", w>> : w \in {v \in Workers : wk[v].pc = "locked"}}
    \cup {<<"timer", t>> : t \in {u \in TimerIds : tm[u].st = "locked"}}

\* C28: at most one actor is inside a registry update, and from the lookup, Stop
\* and removal of the prior timer to the install of the new one (or the unlock of
\* the expired branch) nobody but the scheduling call changes the registry
C28_RegistryUpdatesExclusive ==
  [][/\ Cardinality(InsideRegistry') <= 1
     /\ \A w \in Workers :
          (wk[w].pc = "locked" /\ timers' # timers)
            => /\ wk'[w].pc # "locked"
               /\ \A k \in Keys \ {resourceKey(wk[w].cur)} : timers'[k] = timers[k]
     /\ \A t \in TimerIds :
          (tm[t].st = "locked" /\ timers' # timers) => tm'[t].st = "done"]_vars

\* a schedule call holds the lock while another schedule call and a timer function
\* wait for it
C28_Witness ==
  \E w \in Workers :
    /\ wk[w].pc = "locked"
    /\ \E v \in Workers \ {w} : wk[v].pc = "lock"
    /\ \E t \in TimerIds : tm[t].st = "cleanup"

\* the only completion signal of object o is a status.completionTime that does not
\* parse as a timestamp
OnlyUnparseableCompletion(o) ==
  /\ o.phase \notin {"Succeeded", "Failed", "Completed"}
  /\ ~\E j \in 1..Len(o.conds) : MatchingCondition(o.conds[j])
  /\ IsString(o.ct) /\ ~ParsesRFC3339(o.ct)

\* C29: an instance whose only completion signal is an unparseable
\* status.completionTime is unfinished: the pass that meets it neither schedules
\* nor deletes it
C29_UnparseableCompletionUnfinished ==
  [][\A w \in Workers :
       (/\ wk[w].pc = "items" /\ wk[w].items # <<>>
        /\ OnlyUnparseableCompletion(Head(wk[w].items).obj))
         => /\ ~isResourceFinished(Head(wk[w].items).obj)
            /\ wk'[w].pc # "lock"]_vars

\* object o matches none of the completion rules
MatchesNoRule(o) ==
  /\ o # NoObj
  /\ o.phase \notin {"Succeeded", "Failed", "Completed"}
  /\ ~\E j \in 1..Len(o.conds) : MatchingCondition(o.conds[j])
  /\ o.ct = AbsentField

\* C30: an instance that matches none of the completion rules is unfinished: no
\* step of a pass deletes it, takes it up for scheduling, or changes the timer of
\* its resource key, whatever its TTL
C30_NoRuleNoDeleteNoTimer ==
  [][\A i \in Insts :
       MatchesNoRule(cluster[i])
         => /\ ~isResourceFinished(cluster[i])
            /\ cluster'[i] = cluster[i]
            /\ timers'[resourceKey(i)] = timers[resourceKey(i)]
            /\ \A w \in Workers : wk'[w].cur # i]_vars

\* a pass has gone through the items of the namespace of an instance that matches
\* no rule and whose TTL has long run out
C30_Witness ==
  \E i \in Insts, w \in Workers :
    /\ MatchesNoRule(cluster[i])
    /\ cluster[i].ttl = IntField(0 - 1)
    /\ wk[w].pc = "items" /\ wk[w].items = <<>> /\ wk[w].nsq # <<>>
    /\ Head(wk[w].nsq) = InstTable[i].ns
    /\ targetGVR(PolicyTable[wk[w].pol]) = InstTable[i].gvr
    /\ timers[resourceKey(i)] = NoTimer

\* C31: a scheduled deletion is destroyed on firing: the step that completes a
\* timer function leaves no registry entry for its resource key, and the registry
\* never holds an entry for a timer whose function has completed
C31_CompletedTimerHasNoEntry ==
  [][\A t \in TimerIds :
       /\ (tm[t].st = "locked" /\ tm'[t].st = "done")
            => timers'[tm[t].key] = NoTimer
       /\ tm'[t].st = "done" => \A k \in Keys : timers'[k] # t]_vars

\* a timer function has completed, no schedule call is under way, and the key of
\* the timer has no entry
C31_Witness ==
  \E t \in TimerIds :
    /\ tm[t].st = "done"
    /\ timers[tm[t].key] = NoTimer
    /\ \A w \in Workers : wk[w].pc \notin {"lock", "locked"}

\* apiVersion is not empty and holds no "/"
NoSlash(apiVersion) ==
  /\ apiVersion # ""
  /\ \A i \in 1..Len(apiVersion) : CharAt(apiVersion, i) # "/"

\* C32: a targetAPIVersion without "/" denotes the core API: the registry, the
\* reconciliation loop and the polling controller resolve it to the empty group
\* and the whole string as version, and none of them rejects it
C32_NoSlashIsCoreGroup ==
  (locators.done /\ target.kind # "" /\ NoSlash(target.apiVersion))
    => /\ ~locators.list.err
       /\ locators.list.gvr.Group = "" /\ locators.list.gvr.Version = target.apiVersion
       /\ locators.poll.Group = "" /\ locators.poll.Version = target.apiVersion
       /\ ~locators.watch.err
       /\ locators.watch.gvr.Group = "" /\ locators.watch.gvr.Version = target.apiVersion

\* ------------------------------------------------- a batch of expired instances
\* policies p1 and p2 over i1 and i4 (one list: namespace a) and i2 (namespace b)
BatchInsts == {"i1", "i2", "i4"}
BatchShapes == {FinishedObj(IntField(0 - 1)), FinishedObj(IntField(1))}

InitBatch ==
  /\ now = 0
  /\ cluster \in {c \in [Insts -> BatchShapes \cup {NoObj}] :
                    \A i \in Insts \ BatchInsts : c[i] = NoObj}
  /\ passes = 0
  /\ changes = 0
  /\ log = NoLog
  /\ TimerInit /\ PollIdle /\ ProbeIdle /\ WatchIdle

NextBatch ==
  \/ Tick
  \/ \E p \in ListedPolicies : Reconcile(1, p, FALSE)
  \/ \E a \in {"ok", "notfound", "error"} : processNamespace(1, a)
  \/ EndPass(1)
  \/ NextItem(1)
  \/ scheduleLock(1)
  \/ scheduleBranch(1)
  \/ \E r \in DeleteResponses : syncDelete(1, r)

SpecBatch == InitBatch /\ [][NextBatch]_vars

\* C33: a failed delete of one instance does not abort the batch: the step that
\* gets the answer of the Delete leaves the remaining items of the list, the
\* remaining namespaces and the policies as they are and goes on with the item
\* loop, and a pass that has started its namespaces ends only after the last one,
\* returning without error
C33_FailedDeleteKeepsBatch ==
  [][\A w \in Workers :
       /\ (wk[w].pc = "delete" /\ wk'[w] # wk[w])
            => /\ wk'[w].pc = "items"
               /\ wk'[w].items = wk[w].items
               /\ wk'[w].nsq = wk[w].nsq
               /\ wk'[w].pol = wk[w].pol
               /\ policies' = policies
               /\ log'.msg # "reconcile-error"
       /\ (wk[w].pc # "idle" /\ wk'[w].pc = "idle")
            => /\ wk[w].nsq = <<>>
               /\ log' = LogFor(wk[w].pol, "reconcile-ok", "")]_vars

\* the Delete of an instance has just failed in a cluster-wide pass while another
\* instance of the same list and another namespace are still to come
C33_Witness ==
  \E w \in Workers :
    /\ log = LogLine("delete-failed", "transient")
    /\ wk[w].pc = "items" /\ wk[w].pol = "p2"
    /\ wk[w].items # <<>>
    /\ Len(wk[w].nsq) = 2

\* ------------------------------------------------- a policy deleted under its timers
\* policy p1 over instance i1; another client deletes p1 and creates it again
\* while passes and timer functions run
InitOrphan ==
  /\ now = 0
  /\ cluster \in {c \in [Insts -> KeyShapes \cup {NoObj}] :
                    \A i \in Insts \ Touched : c[i] = NoObj}
  /\ passes = 0
  /\ changes = 0
  /\ log = NoLog
  /\ TimerInit /\ PollIdle /\ ProbeIdle /\ WatchIdle

NextOrphan ==
  \/ Tick
  \/ CreatePolicy("p1")
  \/ DeletePolicy("p1")
  \/ Reconcile(1, "p1", FALSE)
  \/ processNamespace(1, "ok")
  \/ EndPass(1)
  \/ NextItem(1)
  \/ scheduleLock(1)
  \/ scheduleBranch(1)
  \/ \E r \in DeleteResponses : syncDelete(1, r)
  \/ \E t \in TimerIds : timerFire(t)
  \/ \E t \in TimerIds, r \in DeleteResponses : timerDelete(t, r)
  \/ \E t \in TimerIds : timerLock(t)
  \/ \E t \in TimerIds : timerCleanup(t)

SpecOrphan == InitOrphan /\ [][NextOrphan]_vars

\* C34: reconciling a policy that no longer exists succeeds and leaves the registry
\* and every timer as they are, and a timer keeps running to its Delete whether or
\* not its policy exists: an armed timer whose delay has elapsed can fire, and a
\* timer function that has started can issue its Delete
C34_DeletedPolicyKeepsTimers ==
  /\ [][(passes' # passes /\ log'.key \in Policies /\ ~policies[log'.key])
          => /\ log'.msg = "reconcile-ok"
             /\ timers' = timers
             /\ tm' = tm]_vars
  /\ [](\A t \in TimerIds :
          /\ (tm[t].st = "armed" /\ now >= tm[t].deadline) => ENABLED timerFire(t)
          /\ tm[t].st = "running" => ENABLED timerDelete(t, "transient"))

\* the policy is gone, a pass for it has just returned, and the timer it had
\* scheduled is still armed in the registry
C34_Witness ==
  /\ ~policies["p1"]
  /\ log = LogFor("p1", "reconcile-ok", "")
  /\ \E t \in TimerIds : tm[t].st = "armed" /\ timers[tm[t].key] = t

\* C35: a pass changes the registry only for the instances it finds finished and
\* TTL-bearing in the current list: it takes up an instance for scheduling only
\* from the head of the list, finished and with a readable TTL, and a step of the
\* pass leaves the pending timer of every other instance pending and unchanged
C35_PassTouchesOnlyListedKeys ==
  [][\A w \in Workers :
       wk'[w] # wk[w]
         => /\ (wk'[w].cur # wk[w].cur /\ wk'[w].cur # NoInst)
                 => /\ wk[w].pc = "items" /\ wk[w].items # <<>>
                    /\ Head(wk[w].items).inst = wk'[w].cur
                    /\ isResourceFinished(Head(wk[w].items).obj)
                    /\ NestedInt64(Head(wk[w].items).obj.ttl).found
            /\ \A t \in TimerIds :
                 (/\ tm[t].st = "armed" /\ timers[tm[t].key] = t
                  /\ tm[t].inst # wk[w].cur)
                   => /\ tm'[t] = tm[t]
                      /\ timers'[tm[t].key] = t]_vars

\* C36: on the synchronous path the timer registered before for the key is stopped
\* and removed and no new one is installed: when scheduleResourceDeletion returns
\* from its Delete, whatever the answer, the registry holds no entry for the key
C36_SyncPathLeavesNoEntry ==
  [][\A w \in Workers :
       /\ (wk[w].pc = "lock" /\ wk'[w].pc = "locked")
            => /\ timers'[resourceKey(wk[w].cur)] = NoTimer
               /\ timers[resourceKey(wk[w].cur)] # NoTimer
                    => tm'[timers[resourceKey(wk[w].cur)]].st # "armed"
       /\ (wk[w].pc = "locked" /\ wk'[w].pc = "delete") => timers' = timers
       /\ (wk[w].pc = "delete" /\ wk'[w].pc # "delete")
            => timers'[resourceKey(wk[w].cur)] = NoTimer]_vars

\* policy p exists, is valid and has no targetNamespace
ClusterWide(p) ==
  /\ policies[p]
  /\ PolicyTable[p].TargetKind # "" /\ PolicyTable[p].TargetAPIVersion # ""
  /\ ~ParseGroupVersionFails(PolicyTable[p].TargetAPIVersion)
  /\ PolicyTable[p].TargetNamespace = ""

\* C37: for a cluster-wide policy a failed List of the namespaces ends the pass with
\* an error before any instance is listed: the call returns at once and the step
\* changes no instance, no timer and no registry entry
C37_NamespaceListFailureAbortsPass ==
  [][(/\ passes' # passes
      /\ log'.msg = "reconcile-error"
      /\ log'.key \in Policies
      /\ ClusterWide(log'.key))
       => /\ \A w \in Workers : wk'[w] = wk[w] /\ wk[w].pol # log'.key
          /\ cluster' = cluster
          /\ timers' = timers
          /\ tm' = tm]_vars

\* the pass of cluster-wide policy p2 has just failed while both namespaces hold a
\* finished instance with a TTL, one of them with a pending timer
C37_Witness ==
  /\ log = LogFor("p2", "reconcile-error", "")
  /\ \A w \in Workers : wk[w].pc = "idle"
  /\ cluster["i1"] = FinishedObj(IntField(1))
  /\ cluster["i2"] = FinishedObj(IntField(1))
  /\ \E t \in TimerIds : tm[t].st = "armed" /\ timers[tm[t].key] = t

\* C38: the registry lock is never held by an actor whose Delete is in flight, every
\* actor that takes the lock can release it in its next step and does so on every
\* path, and a Delete in flight, however long it takes, leaves the lock free for
\* the schedule calls that wait for it
C38_NoLockAcrossDelete ==
  /\ [](/\ \A w \in Workers :
            /\ wk[w].pc = "delete" => mutex.w # w
            /\ mutex.w = w => (wk[w].pc = "locked" /\ ENABLED scheduleBranch(w))
            /\ (wk[w].pc = "lock" /\ mutex = FreeMutex) => ENABLED scheduleLock(w)
        /\ \A t \in TimerIds :
            /\ tm[t].st = "running" => mutex.t # t
            /\ mutex.t = t => (tm[t].st = "locked" /\ ENABLED timerCleanup(t))
            /\ (tm[t].st = "cleanup" /\ mutex = FreeMutex) => ENABLED timerLock(t))
  /\ [][/\ \A w \in Workers :
            (wk[w].pc = "locked" /\ wk'[w].pc # "locked") => mutex' = FreeMutex
        /\ \A t \in TimerIds :
            (tm[t].st = "locked" /\ tm'[t].st # "locked") => mutex' = FreeMutex]_vars

\* the Delete of one schedule call and the Delete of a timer function are in flight
\* while another schedule call holds the lock
C38_Witness ==
  \E w \in Workers, v \in Workers, t \in TimerIds :
    /\ wk[w].pc = "delete"
    /\ tm[t].st = "running"
    /\ wk[v].pc = "locked" /\ mutex.w = v

====
